---- MODULE Spec2Model ----
(***************************************************************************)
(* A state-machine model of flarestack's data layer                        *)
(* (flarestack/data/__init__.py: DatasetHolder, Dataset, Season and its    *)
(* subclasses) and of calculate_transient and the redshift integrals       *)
(* (flarestack/utils/neutrino_cosmology.py).                               *)
(*                                                                         *)
(* Python values are represented as follows:                               *)
(*   None / an object     the empty sequence <<>> / the one-element <<x>>  *)
(*   dict                 a function whose DOMAIN is the set of keys       *)
(*   list / structured array   a sequence (of records, one per event)      *)
(*   season names, paths  small naturals                                   *)
(* Each group of operations has its own specification (SpecDataset,        *)
(* SpecSeason, SpecReplay, SpecConc, SpecFiles, SpecCosmo, SpecHolder,     *)
(* SpecIntegrate); the variables of the other groups stay at their         *)
(* initial value.                                                          *)
(***************************************************************************)
EXTENDS Integers, Sequences, FiniteSets, TLC

\* ---------------------------------------------------------------- bounds
\* season names are 1..NumNames
NumNames == 2
\* Season objects that may be registered
NumObjs == 4
\* longest argument list given to get_seasons
MaxArgs == 2

\* most events in an experimental data file
MaxEvents == 3
\* arrival times (MJD) are 1..MaxTime
MaxTime == 2
\* np.random.uniform(0, 2 pi) is drawn on a grid of RaLevels values
RaLevels == 3
\* seeds given to np.random.seed are 0..MaxSeed
MaxSeed == 1
\* most calls that scramble, load or build made on one Season in one
\* behaviour (pseudo_background / simulate_background, load_background_model,
\* get_time_pdf, build_time_pdf), and most runs of build_time_pdf
MaxCalls == 3

VARIABLES
    seasons,            \* Dataset.seasons: dict name -> Season
    subseasons,         \* Dataset.subseasons: dict name -> Season
    exp,                \* the events stored in the file at Season.exp_path
    t_pdf_cfg,          \* None: Season.build_time_pdf_dict; Some(d): a subclass's dict
    loaded_background,  \* Season.loaded_background
    background_dtype,   \* Season.background_dtype
    time_pdf,           \* Season.time_pdf
    rng,                \* state of numpy's global generator: seed and draws consumed
    nLoads,             \* completed runs of Season.load_background_model
    nBuilds,            \* runs of Season.build_time_pdf
    tp_hist,            \* the get_time_pdf / clean_season_cache calls made so far
    direct,             \* the direct calls of load_background_model and build_time_pdf
    nCalls,             \* calls of pseudo_background / simulate_background
    ref,                \* the first scramble of the behaviour: generator state and sample
    fs,                 \* the paths that exist as files
    exp_path,           \* Season.exp_path
    pseudo_mc_path,     \* Season.pseudo_mc_path
    mc_path,            \* SeasonWithMC.mc_path
    all_paths,          \* Season.all_paths
    e_pdf_dict,         \* the dict a caller passes to calculate_transient
    datasets,           \* DatasetHolder.datasets: dict version -> dataset
    current,            \* DatasetHolder.current
    fgrid,              \* the integrand f on the points of the redshift grid
    pc,                 \* per thread: the statement it is about to run
    loc,                \* per thread: the local variable of the running method
    ret                 \* what the last operation returned or raised

datasetVars == <<seasons, subseasons>>

seasonVars == <<exp, t_pdf_cfg, loaded_background, background_dtype, time_pdf,
                rng, nLoads, nBuilds, tp_hist, direct, nCalls, ref>>

threadVars == <<pc, loc>>

fileVars == <<fs, exp_path, pseudo_mc_path, mc_path, all_paths>>

cosmoVars == <<e_pdf_dict>>

holderVars == <<datasets, current>>

gridVars == <<fgrid>>

outsideSeason == <<datasetVars, fileVars, cosmoVars, holderVars, gridVars>>

vars == <<seasons, subseasons, exp, t_pdf_cfg, loaded_background,
          background_dtype, time_pdf, rng, nLoads, nBuilds, nCalls, ref,
          fs, exp_path, pseudo_mc_path, mc_path, all_paths, e_pdf_dict,
          datasets, current, fgrid, tp_hist, direct, pc, loc, ret>>

\* ------------------------------------------------------- python helpers
None == <<>>

Some(x) == <<x>>

EmptyDict == <<>>

\* d[k] = v on a dict
DictSet(d, k, v) == [x \in (DOMAIN d) \cup {k} |-> IF x = k THEN v ELSE d[x]]

NoRet == [op |-> "none"]

\* no get_time_pdf or clean_season_cache call yet: the maximal runs of
\* get_time_pdf calls begun, the get_time_pdf calls made, and whether the
\* last of these calls was a get_time_pdf
NoHist == [runs |-> 0, calls |-> 0, open |-> FALSE]

\* no call yet of load_background_model or build_time_pdf from outside the
\* Season: the number of such calls of each made so far
NoDirect == [loads |-> 0, builds |-> 0]

\* the calls made on the Season so far that count towards MaxCalls
CallsMade(scrambles, hist, dir) == scrambles + hist.calls + dir.loads + dir.builds

\* the Season variables of a specification that runs no Season operation
SeasonIdle ==
    /\ exp = <<>>
    /\ t_pdf_cfg = None
    /\ loaded_background = None
    /\ background_dtype = None
    /\ time_pdf = None
    /\ rng = [seed |-> 0, pos |-> 0]
    /\ nLoads = 0
    /\ nBuilds = 0
    /\ tp_hist = NoHist
    /\ direct = NoDirect
    /\ nCalls = 0
    /\ ref = None

\* no thread is inside a method: the operations run one at a time
Sequential ==
    /\ pc = <<>>
    /\ loc = <<>>

\* the file and cosmology variables of a specification that does not use them
NoFiles ==
    /\ fs = {}
    /\ exp_path = None
    /\ pseudo_mc_path = None
    /\ mc_path = None
    /\ all_paths = <<>>

NoCosmo == e_pdf_dict = EmptyDict

\* the DatasetHolder and the redshift grid of a specification that uses neither
NoHolder ==
    /\ datasets = EmptyDict
    /\ current = None

NoGrid == fgrid = <<>>

\* ------------------------------------------------------------- Dataset
SeasonNames == 1..NumNames

\* a Season object as the Dataset sees it: its identity and its season_name;
\* the objects share the names in turn, so that several carry the same name
SeasonObjs == {[id |-> i, season_name |-> ((i - 1) % NumNames) + 1] : i \in 1..NumObjs}

ArgLists == UNION {[1..n -> SeasonNames] : n \in 0..MaxArgs}

\* Dataset.__init__
DatasetInit ==
    /\ seasons = EmptyDict
    /\ subseasons = EmptyDict

\* Dataset.add_season
add_season(season) ==
    /\ seasons' = DictSet(seasons, season.season_name, season)
    /\ UNCHANGED subseasons
    /\ ret' = [op |-> "add_season"]
    /\ UNCHANGED <<seasonVars, threadVars, fileVars, cosmoVars,
                   holderVars, gridVars>>

\* Dataset.add_subseason
add_subseason(season) ==
    /\ subseasons' = DictSet(subseasons, season.season_name, season)
    /\ UNCHANGED seasons
    /\ ret' = [op |-> "add_subseason"]
    /\ UNCHANGED <<seasonVars, threadVars, fileVars, cosmoVars,
                   holderVars, gridVars>>

\* The loop of get_seasons over season_names[i..], season_dict being what the
\* earlier iterations stored. The first name found in neither dict raises.
RECURSIVE SeasonLoopSubFirst(_, _, _, _, _)
SeasonLoopSubFirst(main, sub, names, i, season_dict) ==
    IF i > Len(names) THEN [raised |-> FALSE, name |-> 0, value |-> season_dict]
    ELSE LET name == names[i] IN
         IF name \in DOMAIN sub
         THEN SeasonLoopSubFirst(main, sub, names, i + 1, DictSet(season_dict, name, sub[name]))
         ELSE IF name \in DOMAIN main
         THEN SeasonLoopSubFirst(main, sub, names, i + 1, DictSet(season_dict, name, main[name]))
         ELSE [raised |-> TRUE, name |-> name, value |-> EmptyDict]

RECURSIVE SeasonLoop(_, _, _, _, _)
SeasonLoop(main, sub, names, i, season_dict) ==
    IF i > Len(names) THEN [raised |-> FALSE, name |-> 0, value |-> season_dict]
    ELSE LET name == names[i] IN
         IF name \in DOMAIN main
         THEN SeasonLoop(main, sub, names, i + 1, DictSet(season_dict, name, main[name]))
         ELSE IF name \in DOMAIN sub
         THEN SeasonLoop(main, sub, names, i + 1, DictSet(season_dict, name, sub[name]))
         ELSE [raised |-> TRUE, name |-> name, value |-> EmptyDict]

\* returning d itself: the caller holds the very dict object it was made from
DictSame(d) == [shared |-> TRUE, value |-> d]

\* dict(d): a new dict object with the items of d; shared tells whether the
\* object returned is d itself
DictCopy(d) == [shared |-> FALSE, value |-> d]

\* Dataset.get_seasons(*args) as a function of the two dicts and the names
GetSeasonsResult(main, sub, names) ==
    IF Len(names) = 0
    THEN LET c == DictCopy(main) IN
         [raised |-> FALSE, name |-> 0, value |-> c.value, shared |-> c.shared]
    ELSE SeasonLoop(main, sub, names, 1, EmptyDict)

\* Dataset.get_seasons
get_seasons(args) ==
    /\ ret' = [op |-> "get_seasons", args |-> args,
               res |-> GetSeasonsResult(seasons, subseasons, args)]
    /\ UNCHANGED datasetVars
    /\ UNCHANGED <<seasonVars, threadVars, fileVars, cosmoVars,
                   holderVars, gridVars>>

\* Dataset.keys
Dataset_keys(main) == DOMAIN main

\* Dataset.items
Dataset_items(main) == {<<k, main[k]>> : k \in DOMAIN main}

\* Dataset.__getitem__ (and Dataset.get): KeyError for a name that is not a
\* main season
Dataset__getitem__(main, item) ==
    IF item \in DOMAIN main THEN [raised |-> "", value |-> Some(main[item])]
    ELSE [raised |-> "KeyError", value |-> None]

\* d with the key k deleted
DictDel(d, k) == [x \in (DOMAIN d) \ {k} |-> d[x]]

\* the caller holds the mapping a get_seasons() call with no names returned
HoldsMapping ==
    /\ ret.op \in {"get_seasons", "caller_write"}
    /\ Len(ret.args) = 0

\* a write of the caller to the mapping it holds, which becomes written: the
\* Dataset's own dict changes with it when the mapping is that very object
caller_write(written) ==
    /\ ret' = [op |-> "caller_write", args |-> ret.args,
               res |-> [ret.res EXCEPT !.value = written]]
    /\ seasons' = IF ret.res.shared THEN written ELSE seasons
    /\ UNCHANGED subseasons
    /\ UNCHANGED <<seasonVars, threadVars, fileVars, cosmoVars,
                   holderVars, gridVars>>

\* the caller's returned[season.season_name] = season
caller_setitem(season) ==
    /\ HoldsMapping
    /\ caller_write(DictSet(ret.res.value, season.season_name, season))

\* the caller's del returned[name]
caller_delitem(name) ==
    /\ HoldsMapping
    /\ name \in DOMAIN ret.res.value
    /\ caller_write(DictDel(ret.res.value, name))

InitDataset ==
    /\ DatasetInit
    /\ NoHolder
    /\ NoGrid
    /\ Sequential
    /\ NoFiles
    /\ NoCosmo
    /\ SeasonIdle
    /\ ret = NoRet

NextDataset ==
    \/ \E s \in SeasonObjs : add_season(s)
    \/ \E s \in SeasonObjs : add_subseason(s)
    \/ \E a \in ArgLists : get_seasons(a)
    \/ \E s \in SeasonObjs : caller_setitem(s)
    \/ \E n \in SeasonNames : caller_delitem(n)

SpecDataset == InitDataset /\ [][NextDataset]_vars

\* -------------------------------------------------------------- C1
Registered(name) == name \in (DOMAIN seasons) \cup (DOMAIN subseasons)

ArgSet(args) == {args[i] : i \in 1..Len(args)}

\* the season registered under a name, a main season before a subseason
Lookup(name) == IF name \in DOMAIN seasons THEN seasons[name] ELSE subseasons[name]

\* what C1 asks of a completed get_seasons(n1..nk), k >= 1, against the dicts
C1_Post(r) ==
    IF \A i \in 1..Len(r.args) : Registered(r.args[i])
    THEN /\ ~r.res.raised
         /\ DOMAIN r.res.value = ArgSet(r.args)
         /\ \A n \in ArgSet(r.args) :
                /\ r.res.value[n] = Lookup(n)
                /\ r.res.value[n].season_name = n
    ELSE /\ r.res.raised
         /\ r.res.name \in ArgSet(r.args)
         /\ ~Registered(r.res.name)
         /\ r.res.value = EmptyDict

\* C1: every step that is a get_seasons call with at least one name returns
\* exactly the requested names, each mapped to the season registered under it
\* (main before subseason), or raises naming an unregistered requested name
\* with no mapping returned; the step leaves seasons and subseasons as they were.
C1_GetSeasonsExact ==
    [][(ret'.op = "get_seasons" /\ Len(ret'.args) >= 1)
        => (C1_Post(ret') /\ seasons' = seasons /\ subseasons' = subseasons)]_vars

\* a call that resolved one name through the main dict although a different
\* subseason has the same name, and another name through the subseasons
C1_Witness ==
    /\ ret.op = "get_seasons"
    /\ Len(ret.args) = 2
    /\ ~ret.res.raised
    /\ \E n \in DOMAIN ret.res.value :
          /\ n \in DOMAIN seasons /\ n \in DOMAIN subseasons
          /\ seasons[n] # subseasons[n]
          /\ ret.res.value[n] = seasons[n]
    /\ \E n \in DOMAIN ret.res.value :
          /\ n \notin DOMAIN seasons
          /\ ret.res.value[n] = subseasons[n]

\* -------------------------------------------------- numpy's generator
Seeds == 0..MaxSeed

\* np.random.seed(seed): the stream restarts at its first draw
SeededState(seed) == [seed |-> seed, pos |-> 0]

\* the generator after n more draws
Advance(rs, n) == [seed |-> rs.seed, pos |-> rs.pos + n]

\* The k-th word (k = 0, 1, ..) of the stream a seed starts: a fixed function
\* of the seed and the position, standing for the Mersenne Twister's output.
RandWord(seed, k) ==
    ((seed + 1) * 7919 + k * 104729 + seed * k * 31 + k * k * 17) % 1009

\* np.random.uniform(0, 2 * np.pi, size=n): one draw per element
uniform(rs, n) == [k \in 1..n |-> RandWord(rs.seed, rs.pos + k - 1) % RaLevels]

\* the index rk_interval(i - 1) picks for position i (1-based): one of 1..i
ShufflePick(rs, n, i) == 1 + (RandWord(rs.seed, rs.pos + (n - i)) % i)

Swap(x, i, j) == [x EXCEPT ![i] = x[j], ![j] = x[i]]

\* np.random.shuffle(x) on a one-dimensional array: for i = n-1 down to 1
\* swap x[i] with x[rk_interval(i)]; here 1-based, i = n down to 2
RECURSIVE ShuffleFrom(_, _, _)
ShuffleFrom(x, rs, i) ==
    IF i < 2 THEN x
    ELSE ShuffleFrom(Swap(x, i, ShufflePick(rs, Len(x), i)), rs, i - 1)

shuffle(x, rs) == ShuffleFrom(x, rs, Len(x))

\* draws a shuffle of n elements consumes
ShuffleDraws(n) == IF n < 2 THEN 0 ELSE n - 1

\* -------------------------------------------------------------- Season
\* the reconstructed quantities of an event, the dtype of the experimental file
ExpFields == {"ra", "dec", "logE", "time"}

\* The experimental files considered: n events, event i with declination i,
\* energy proxy 10 + n - i, and any arrival times.
ExpTable(times) ==
    [i \in 1..Len(times) |->
        [ra |-> 0, dec |-> i, logE |-> 10 + Len(times) - i, time |-> times[i]]]

ExpTables == {ExpTable(t) : t \in UNION {[1..n -> 1..MaxTime] : n \in 0..MaxEvents}}

Column(data, f) == [i \in 1..Len(data) |-> data[i][f]]

\* Season.load_data / Season.get_exp_data: the file's events as an array
get_exp_data == exp

\* Season.get_background_model: the experimental data with a weight of 1 appended
get_background_model ==
    [i \in 1..Len(get_exp_data) |->
        [ra |-> get_exp_data[i].ra, dec |-> get_exp_data[i].dec,
         logE |-> get_exp_data[i].logE, time |-> get_exp_data[i].time,
         weight |-> 1]]

\* Season.get_background_dtype: the cached names, else those of the file
DtypeNames(cached) == IF cached = None THEN ExpFields ELSE cached[1]

\* the test "self.loaded_background is None" of pseudo_background
NeedsLoadAlways(lb) == TRUE

NeedsLoad(lb) == lb = None

\* data['ra'] = np.random.uniform(0, 2 * np.pi, size=len(data))
AssignRa(data, rs) ==
    [i \in 1..Len(data) |-> [data[i] EXCEPT !.ra = uniform(rs, Len(data))[i]]]

\* a shuffle of the whole rows instead of the time column
ShuffleRows(data, rs) == shuffle(data, rs)

\* np.random.shuffle(data["time"]): the time column is permuted in place, the
\* other columns of every row stay
ShuffleTimes(data, rs) ==
    [i \in 1..Len(data) |->
        [data[i] EXCEPT !.time = shuffle(Column(data, "time"), rs)[i]]]

\* data[list(names)]: the columns of the experimental dtype
Project(data, names) == [i \in 1..Len(data) |-> [f \in names |-> data[i][f]]]

\* the scrambled array pseudo_background builds from the cached model
Scrambled(model, rs) == ShuffleTimes(AssignRa(model, rs), Advance(rs, Len(model)))

\* the generator after one scramble of n events
AfterScramble(rs, n) == Advance(rs, n + ShuffleDraws(n))

\* writing through the cached array itself instead of a copy of it
ModelAfterScrambleInPlace(model, data) == data

\* data = np.copy(self.loaded_background): the scramble writes to the copy, so
\* the cached model is after the call what it was before
ModelAfterScramble(model, data) == model

\* Season.pseudo_background
pseudo_background ==
    /\ CallsMade(nCalls, tp_hist, direct) < MaxCalls
    /\ LET load == NeedsLoad(loaded_background)
           model == IF load THEN get_background_model ELSE loaded_background[1]
           data == Scrambled(model, rng)
           names == DtypeNames(background_dtype)
           sample == Project(data, names)
       IN /\ loaded_background' = Some(ModelAfterScramble(model, data))
          /\ nLoads' = IF load THEN nLoads + 1 ELSE nLoads
          /\ background_dtype' = Some(names)
          /\ rng' = AfterScramble(rng, Len(model))
          /\ ret' = [op |-> "pseudo_background", sample |-> sample, rng_in |-> rng]
          /\ ref' = IF ref = None THEN Some([rng_in |-> rng, sample |-> sample])
                    ELSE ref
    /\ nCalls' = nCalls + 1
    /\ UNCHANGED <<exp, t_pdf_cfg, time_pdf, nBuilds, tp_hist, direct>>
    /\ UNCHANGED <<outsideSeason, threadVars>>

\* Season.simulate_background
simulate_background == pseudo_background

\* Season.load_background_model called from outside the Season: it loads
\* and assigns whatever the cache holds
load_background_model ==
    /\ CallsMade(nCalls, tp_hist, direct) < MaxCalls
    /\ loaded_background' = Some(get_background_model)
    /\ nLoads' = nLoads + 1
    /\ direct' = [direct EXCEPT !.loads = @ + 1]
    /\ ret' = [op |-> "load_background_model"]
    /\ UNCHANGED <<exp, t_pdf_cfg, background_dtype, time_pdf, rng, nBuilds,
                   tp_hist, nCalls, ref>>
    /\ UNCHANGED <<outsideSeason, threadVars>>

\* Season.get_background_dtype called from outside the Season; it returns
\* the names it leaves in self.background_dtype
get_background_dtype ==
    /\ background_dtype' = Some(DtypeNames(background_dtype))
    /\ ret' = [op |-> "get_background_dtype"]
    /\ UNCHANGED <<exp, t_pdf_cfg, loaded_background, time_pdf, rng, nLoads,
                   nBuilds, tp_hist, direct, nCalls, ref>>
    /\ UNCHANGED <<outsideSeason, threadVars>>

\* ------------------------------------------------------------ time PDFs
TimePdfNames == {"steady", "box", "fixed_ref_box", "fixed_end_box",
                 "on_off_list", "custom_source_box"}

\* the class TimePDF.create instantiates for a time_pdf_name
ClassOf(name) ==
    CASE name = "steady" -> "Steady"
      [] name = "box" -> "Box"
      [] name = "fixed_ref_box" -> "FixedRefBox"
      [] name = "fixed_end_box" -> "FixedEndBox"
      [] name = "on_off_list" -> "OnOffList"
      [] name = "custom_source_box" -> "CustomSourceBox"

\* TimePDF.create(t_pdf_dict): an instance of the named class holding the dict
TimePDF_create(t_pdf_dict) ==
    [class |-> ClassOf(t_pdf_dict.time_pdf_name), t_dict |-> t_pdf_dict]

\* the dictionaries a Season subclass may return from build_time_pdf_dict
TimePdfCfgs == {None} \cup {Some([time_pdf_name |-> n]) : n \in TimePdfNames}

SeqMin(x) == CHOOSE m \in {x[i] : i \in 1..Len(x)} : \A i \in 1..Len(x) : m <= x[i]

SeqMax(x) == CHOOSE m \in {x[i] : i \in 1..Len(x)} : \A i \in 1..Len(x) : m >= x[i]

\* the livetime taken to start at the first row of the file
build_time_pdf_dict_first_row(data) ==
    IF Len(data) = 0 THEN [raised |-> "empty", value |-> EmptyDict]
    ELSE [raised |-> "",
          value |-> [time_pdf_name |-> "fixed_end_box",
                     start_time_mjd |-> data[1].time,
                     end_time_mjd |-> SeqMax(Column(data, "time"))]]

\* Season.build_time_pdf_dict on the events of the file; min() of no events raises
build_time_pdf_dict(data) ==
    IF Len(data) = 0 THEN [raised |-> "empty", value |-> EmptyDict]
    ELSE [raised |-> "",
          value |-> [time_pdf_name |-> "fixed_end_box",
                     start_time_mjd |-> SeqMin(Column(data, "time")),
                     end_time_mjd |-> SeqMax(Column(data, "time"))]]

\* self.build_time_pdf_dict(): the base method, or the subclass's dictionary
SeasonTimePdfDict(cfg, data) ==
    IF cfg = None THEN build_time_pdf_dict(data) ELSE [raised |-> "", value |-> cfg[1]]

\* the allowed classes without OnOffList
compatible_closed_form_only == {"FixedEndBox", "FixedRefBox"}

\* compatible_time_pdfs of build_time_pdf
compatible_time_pdfs == {"FixedEndBox", "FixedRefBox", "OnOffList"}

\* np.sum([isinstance(time_pdf, x) for x in compatible_time_pdfs]) == 0
NotAllowed(pdf) == Cardinality({x \in compatible_time_pdfs : pdf.class = x}) = 0

\* Season.build_time_pdf, id being the identity of the object it creates
build_time_pdf(cfg, data, id) ==
    LET d == SeasonTimePdfDict(cfg, data) IN
    IF d.raised # "" THEN [raised |-> d.raised, value |-> None]
    ELSE LET pdf == TimePDF_create(d.value) IN
         IF NotAllowed(pdf) THEN [raised |-> "not_allowed", value |-> None]
         ELSE [raised |-> "",
               value |-> Some([id |-> id, class |-> pdf.class, t_dict |-> pdf.t_dict])]

\* the test of get_time_pdf, line 189: self.time_pdf is None
CacheIsEmptyAlways(cache) == TRUE

CacheIsEmpty(cache) == cache = None

\* the call history after one more get_time_pdf call
HistAfterGet(h) ==
    [runs |-> IF h.open THEN h.runs ELSE h.runs + 1,
     calls |-> h.calls + 1,
     open |-> TRUE]

\* the call history after one more clean_season_cache call
HistAfterClean(h) == [h EXCEPT !.open = FALSE]

\* Season.get_time_pdf
get_time_pdf ==
    /\ CallsMade(nCalls, tp_hist, direct) < MaxCalls
    /\ IF CacheIsEmpty(time_pdf)
       THEN /\ nBuilds < MaxCalls
            /\ LET b == build_time_pdf(t_pdf_cfg, exp, nBuilds + 1) IN
                 /\ time_pdf' = b.value
                 /\ ret' = [op |-> "get_time_pdf", raised |-> b.raised,
                            value |-> b.value, built |-> TRUE]
            /\ nBuilds' = nBuilds + 1
       ELSE /\ ret' = [op |-> "get_time_pdf", raised |-> "",
                       value |-> time_pdf, built |-> FALSE]
            /\ UNCHANGED <<time_pdf, nBuilds>>
    /\ tp_hist' = HistAfterGet(tp_hist)
    /\ UNCHANGED <<exp, t_pdf_cfg, loaded_background, background_dtype, rng,
                   nLoads, direct, nCalls, ref>>
    /\ UNCHANGED <<outsideSeason, threadVars>>

\* Season.build_time_pdf called from outside the Season: the time PDF is
\* built and returned, or the build raises; self.time_pdf is not assigned
Season_build_time_pdf ==
    /\ CallsMade(nCalls, tp_hist, direct) < MaxCalls
    /\ LET b == build_time_pdf(t_pdf_cfg, exp, nBuilds + 1) IN
         ret' = [op |-> "build_time_pdf", raised |-> b.raised, value |-> b.value]
    /\ nBuilds' = nBuilds + 1
    /\ direct' = [direct EXCEPT !.builds = @ + 1]
    /\ UNCHANGED <<exp, t_pdf_cfg, loaded_background, background_dtype, time_pdf,
                   rng, nLoads, tp_hist, nCalls, ref>>
    /\ UNCHANGED <<outsideSeason, threadVars>>

\* Season.clean_season_cache
clean_season_cache ==
    /\ time_pdf' = None
    /\ tp_hist' = HistAfterClean(tp_hist)
    /\ ret' = [op |-> "clean_season_cache"]
    /\ UNCHANGED <<exp, t_pdf_cfg, loaded_background, background_dtype, rng,
                   nLoads, nBuilds, direct, nCalls, ref>>
    /\ UNCHANGED <<outsideSeason, threadVars>>

\* Season.__init__ on a data file, with the generator in a seeded state
SeasonInit ==
    /\ loaded_background = None
    /\ background_dtype = None
    /\ time_pdf = None
    /\ nLoads = 0
    /\ nBuilds = 0
    /\ tp_hist = NoHist
    /\ direct = NoDirect
    /\ nCalls = 0
    /\ ref = None

\* a fresh Season on any data file and time PDF dictionary, the generator
\* seeded with 0 (SpecReplay varies the seed)
InitSeason ==
    /\ DatasetInit
    /\ NoHolder
    /\ NoGrid
    /\ Sequential
    /\ NoFiles
    /\ NoCosmo
    /\ SeasonInit
    /\ exp \in ExpTables
    /\ t_pdf_cfg \in TimePdfCfgs
    /\ rng = SeededState(0)
    /\ ret = NoRet

NextSeason ==
    \/ pseudo_background
    \/ simulate_background
    \/ load_background_model
    \/ get_background_dtype
    \/ get_time_pdf
    \/ Season_build_time_pdf
    \/ clean_season_cache

SpecSeason == InitSeason /\ [][NextSeason]_vars

\* ----------------------------------------------- seeded replay of trials
\* most draws other code may take from the generator after a seeding
MaxDraws == 2

\* np.random.seed(seed), as the trial loop calls it
np_random_seed(seed) ==
    /\ rng' = SeededState(seed)
    /\ ret' = [op |-> "seed"]
    /\ UNCHANGED <<exp, t_pdf_cfg, loaded_background, background_dtype, time_pdf,
                   nLoads, nBuilds, tp_hist, direct, nCalls, ref>>
    /\ UNCHANGED <<outsideSeason, threadVars>>

\* a draw from the global generator by other code of the trial
other_draw ==
    /\ rng.pos < MaxDraws
    /\ rng' = Advance(rng, 1)
    /\ ret' = [op |-> "draw"]
    /\ UNCHANGED <<exp, t_pdf_cfg, loaded_background, background_dtype, time_pdf,
                   nLoads, nBuilds, tp_hist, direct, nCalls, ref>>
    /\ UNCHANGED <<outsideSeason, threadVars>>

InitReplay ==
    /\ DatasetInit
    /\ NoHolder
    /\ NoGrid
    /\ Sequential
    /\ NoFiles
    /\ NoCosmo
    /\ SeasonInit
    /\ exp \in ExpTables
    /\ t_pdf_cfg = None
    /\ rng \in {SeededState(s) : s \in Seeds}
    /\ ret = NoRet

NextReplay ==
    \/ \E s \in Seeds : np_random_seed(s)
    \/ other_draw
    \/ pseudo_background
    \/ simulate_background
    \/ load_background_model
    \/ get_background_dtype

SpecReplay == InitReplay /\ [][NextReplay]_vars

\* -------------------------------------------------------------- C2
Count(x, v) == Cardinality({i \in 1..Len(x) : x[i] = v})

IsPermutationOf(x, y) ==
    /\ Len(x) = Len(y)
    /\ \A v \in {x[i] : i \in 1..Len(x)} \cup {y[i] : i \in 1..Len(y)} :
          Count(x, v) = Count(y, v)

\* C2: the sample pseudo_background returns has as many events as the
\* background model, every event with the declination and energy proxy the
\* model has at that row, a right ascension drawn by uniform, and a time
\* column that is a permutation of the model's.
C2_ScramblePreserves ==
    ret.op = "pseudo_background" =>
        /\ Len(ret.sample) = Len(get_background_model)
        /\ \A i \in 1..Len(ret.sample) :
              /\ DOMAIN ret.sample[i] = ExpFields
              /\ ret.sample[i].dec = get_background_model[i].dec
              /\ ret.sample[i].logE = get_background_model[i].logE
              /\ ret.sample[i].ra \in 0..(RaLevels - 1)
        /\ IsPermutationOf(Column(ret.sample, "time"),
                           Column(get_background_model, "time"))

\* a scramble of three events that moved arrival times between events and
\* replaced a right ascension
C2_Witness ==
    /\ ret.op = "pseudo_background"
    /\ Len(ret.sample) = 3
    /\ Column(ret.sample, "time") # Column(exp, "time")
    /\ \E i \in 1..3 : ret.sample[i].ra # exp[i].ra

\* -------------------------------------------------------------- C3
\* the class of the time PDF the season's dictionary names
ConfiguredClass ==
    IF t_pdf_cfg = None THEN "FixedEndBox" ELSE ClassOf(t_pdf_cfg[1].time_pdf_name)

BuildRan ==
    \/ ret.op = "get_time_pdf" /\ ret.built
    \/ ret.op = "build_time_pdf"

\* the build ran inside get_time_pdf, which caches what it built
CachingBuildRan == ret.op = "get_time_pdf" /\ ret.built

\* C3 as claimed: a build for Steady, OnOffList or another variant without a
\* closed-form start and end raises; only FixedEndBox and FixedRefBox build.
C3_OpenEndedRejected ==
    BuildRan =>
        /\ ConfiguredClass \in {"Steady", "OnOffList", "Box", "CustomSourceBox"}
               => ret.raised # ""
        /\ ret.raised = "" => ConfiguredClass \in {"FixedEndBox", "FixedRefBox"}

\* C3 amended: build_time_pdf raises its not-allowed-class error exactly for
\* the classes other than FixedEndBox, FixedRefBox and OnOffList; a time PDF of
\* one of these three is built (and cached, when get_time_pdf ran the build),
\* unless the default dictionary cannot be made because the data file holds
\* no event.
C3_OnlyListedClassesBuild ==
    BuildRan =>
        /\ ret.raised = "not_allowed"
               <=> ConfiguredClass \notin {"FixedEndBox", "FixedRefBox", "OnOffList"}
        /\ ConfiguredClass \in {"FixedEndBox", "FixedRefBox", "OnOffList"}
               => \/ /\ ret.raised = ""
                     /\ ret.value # None
                     /\ ret.value[1].class = ConfiguredClass
                     /\ CachingBuildRan => time_pdf = ret.value
                  \/ /\ ret.raised = "empty"
                     /\ t_pdf_cfg = None
                     /\ Len(exp) = 0
        /\ ret.raised # "" => time_pdf = None

\* a build that accepted an OnOffList
C3_Witness ==
    /\ CachingBuildRan
    /\ ConfiguredClass = "OnOffList"
    /\ ret.raised = ""
    /\ time_pdf # None
    /\ time_pdf[1].class = "OnOffList"

\* -------------------------------------------------------------- C5
\* C5: in a sequence of scrambles with no direct call of
\* load_background_model, no background model is loaded before the first
\* scramble; from the first scramble on load_background_model has run exactly
\* once and the cached model is the one that run loaded, whatever the number
\* of later scrambles.  Whatever direct loads are made besides, the scrambles
\* add at most one load to them and never change the cached model.
C5_LoadedOnce ==
    /\ direct.loads = 0 =>
           /\ nCalls = 0 => (nLoads = 0 /\ loaded_background = None)
           /\ nCalls >= 1 => (nLoads = 1 /\ loaded_background = Some(get_background_model))
    /\ nLoads >= direct.loads
    /\ nLoads <= direct.loads + 1
    /\ nCalls >= 1 => nLoads >= 1
    /\ nLoads >= 1 => loaded_background = Some(get_background_model)

\* a second or later scramble has returned
C5_Witness ==
    /\ direct.loads = 0
    /\ nCalls >= 2
    /\ nLoads = 1
    /\ ret.op = "pseudo_background"
    /\ Len(ret.sample) >= 2

\* -------------------------------------------------------------- C6
\* C6 as claimed: a scramble made under the seed of the first scramble returns
\* the first scramble's sample, whatever was drawn since the seeding.
C6_SameSeedSameSample ==
    (ret.op = "pseudo_background" /\ ref # None
        /\ ret.rng_in.seed = ref[1].rng_in.seed)
    => ret.sample = ref[1].sample

\* C6 amended: a scramble that starts from the generator state the first
\* scramble started from (the same seed and the same number of draws since
\* np.random.seed) returns the first scramble's sample.
C6_SameStateSameSample ==
    (ret.op = "pseudo_background" /\ ref # None /\ ret.rng_in = ref[1].rng_in)
    => ret.sample = ref[1].sample

\* a later scramble replayed the first one after a reseeding and a foreign draw
C6_Witness ==
    /\ ret.op = "pseudo_background"
    /\ nCalls >= 2
    /\ ref # None
    /\ ret.rng_in = ref[1].rng_in
    /\ ret.rng_in.pos > 0
    /\ Len(ret.sample) >= 2
    /\ Column(ret.sample, "time") # Column(exp, "time")

\* -------------------------------------------------------------- C8
\* C8: once the time PDF of a season with the default livetime dictionary is
\* built, its start and end are the earliest and latest arrival time of the
\* data file, and every arrival time of the file and of a sample returned by
\* pseudo_background lies between them.
C8_TimesWithinLivetime ==
    (t_pdf_cfg = None /\ time_pdf # None) =>
        LET t0 == time_pdf[1].t_dict.start_time_mjd
            t1 == time_pdf[1].t_dict.end_time_mjd
        IN /\ \A i \in 1..Len(exp) : t0 <= exp[i].time /\ exp[i].time <= t1
           /\ \E i \in 1..Len(exp) : exp[i].time = t0
           /\ \E i \in 1..Len(exp) : exp[i].time = t1
           /\ ret.op = "pseudo_background" =>
                 \A i \in 1..Len(ret.sample) :
                     t0 <= ret.sample[i].time /\ ret.sample[i].time <= t1

\* a scramble returned while the default time PDF is cached, the file's first
\* event being its latest
C8_Witness ==
    /\ t_pdf_cfg = None
    /\ time_pdf # None
    /\ ret.op = "pseudo_background"
    /\ Len(exp) >= 2
    /\ time_pdf[1].t_dict.start_time_mjd < time_pdf[1].t_dict.end_time_mjd
    /\ exp[1].time = time_pdf[1].t_dict.end_time_mjd
    /\ Column(ret.sample, "time") # Column(exp, "time")

\* ------------------------------------------- threads sharing one Season
\* threads that call the Season's methods at the same time
NumThreads == 2

Threads == 1..NumThreads

concShared == <<exp, t_pdf_cfg, ref, tp_hist, direct>>

Goto(t, label) == pc' = [pc EXCEPT ![t] = label]

\* pseudo_background, line 138: the test of self.loaded_background
pb_enter(t) ==
    /\ pc[t] = "idle"
    /\ nCalls < MaxCalls
    /\ nCalls' = nCalls + 1
    /\ Goto(t, IF NeedsLoad(loaded_background) THEN "pb_load" ELSE "pb_copy")
    /\ UNCHANGED <<loaded_background, background_dtype, time_pdf, rng, nLoads,
                   nBuilds, loc, ret>>
    /\ UNCHANGED <<concShared, outsideSeason>>

\* load_background_model, line 111: the call of get_background_model
pb_load(t) ==
    /\ pc[t] = "pb_load"
    /\ loc' = [loc EXCEPT ![t] = get_background_model]
    /\ Goto(t, "pb_store")
    /\ UNCHANGED <<loaded_background, background_dtype, time_pdf, rng, nLoads,
                   nBuilds, nCalls, ret>>
    /\ UNCHANGED <<concShared, outsideSeason>>

\* load_background_model, line 111: the assignment to self.loaded_background
pb_store(t) ==
    /\ pc[t] = "pb_store"
    /\ loaded_background' = Some(loc[t])
    /\ nLoads' = nLoads + 1
    /\ Goto(t, "pb_copy")
    /\ UNCHANGED <<background_dtype, time_pdf, rng, nBuilds, nCalls, loc, ret>>
    /\ UNCHANGED <<concShared, outsideSeason>>

\* pseudo_background, line 140
pb_copy(t) ==
    /\ pc[t] = "pb_copy"
    /\ loc' = [loc EXCEPT ![t] = loaded_background[1]]
    /\ Goto(t, "pb_ra")
    /\ UNCHANGED <<loaded_background, background_dtype, time_pdf, rng, nLoads,
                   nBuilds, nCalls, ret>>
    /\ UNCHANGED <<concShared, outsideSeason>>

\* pseudo_background, line 142
pb_ra(t) ==
    /\ pc[t] = "pb_ra"
    /\ loc' = [loc EXCEPT ![t] = AssignRa(loc[t], rng)]
    /\ rng' = Advance(rng, Len(loc[t]))
    /\ Goto(t, "pb_shuffle")
    /\ UNCHANGED <<loaded_background, background_dtype, time_pdf, nLoads,
                   nBuilds, nCalls, ret>>
    /\ UNCHANGED <<concShared, outsideSeason>>

\* pseudo_background, line 144
pb_shuffle(t) ==
    /\ pc[t] = "pb_shuffle"
    /\ loc' = [loc EXCEPT ![t] = ShuffleTimes(loc[t], rng)]
    /\ rng' = Advance(rng, ShuffleDraws(Len(loc[t])))
    /\ Goto(t, "pb_dtype_test")
    /\ UNCHANGED <<loaded_background, background_dtype, time_pdf, nLoads,
                   nBuilds, nCalls, ret>>
    /\ UNCHANGED <<concShared, outsideSeason>>

\* get_background_dtype called by line 145, line 114: the test of
\* self.background_dtype
pb_dtype_test(t) ==
    /\ pc[t] = "pb_dtype_test"
    /\ Goto(t, IF background_dtype = None THEN "pb_dtype_load" ELSE "pb_return")
    /\ UNCHANGED <<loaded_background, background_dtype, time_pdf, rng, nLoads,
                   nBuilds, nCalls, loc, ret>>
    /\ UNCHANGED <<concShared, outsideSeason>>

\* get_background_dtype, line 115: the file is read into the local exp, held
\* next to the scrambled data
pb_dtype_load(t) ==
    /\ pc[t] = "pb_dtype_load"
    /\ loc' = [loc EXCEPT ![t] = [data |-> loc[t], exp |-> get_exp_data]]
    /\ Goto(t, "pb_dtype_store")
    /\ UNCHANGED <<loaded_background, background_dtype, time_pdf, rng, nLoads,
                   nBuilds, nCalls, ret>>
    /\ UNCHANGED <<concShared, outsideSeason>>

\* get_background_dtype, lines 116-117: the assignment of exp.dtype to
\* self.background_dtype, and del exp
pb_dtype_store(t) ==
    /\ pc[t] = "pb_dtype_store"
    /\ background_dtype' = Some(ExpFields)
    /\ loc' = [loc EXCEPT ![t] = loc[t].data]
    /\ Goto(t, "pb_return")
    /\ UNCHANGED <<loaded_background, time_pdf, rng, nLoads, nBuilds, nCalls, ret>>
    /\ UNCHANGED <<concShared, outsideSeason>>

\* get_background_dtype, line 118, and pseudo_background, line 145: the
\* columns of self.background_dtype are returned
pb_return(t) ==
    /\ pc[t] = "pb_return"
    /\ ret' = [ret EXCEPT ![t] =
                 [op |-> "pseudo_background",
                  sample |-> Project(loc[t], background_dtype[1])]]
    /\ loc' = [loc EXCEPT ![t] = None]
    /\ Goto(t, "idle")
    /\ UNCHANGED <<loaded_background, background_dtype, time_pdf, rng, nLoads,
                   nBuilds, nCalls>>
    /\ UNCHANGED <<concShared, outsideSeason>>

\* get_time_pdf, line 189: the test of self.time_pdf
tp_enter(t) ==
    /\ pc[t] = "idle"
    /\ Goto(t, IF time_pdf = None THEN "tp_build" ELSE "tp_return")
    /\ UNCHANGED <<loaded_background, background_dtype, time_pdf, rng, nLoads,
                   nBuilds, nCalls, loc, ret>>
    /\ UNCHANGED <<concShared, outsideSeason>>

\* get_time_pdf, line 190: the call of build_time_pdf
tp_build(t) ==
    /\ pc[t] = "tp_build"
    /\ nBuilds < MaxCalls
    /\ LET b == build_time_pdf(t_pdf_cfg, exp, nBuilds + 1) IN
         IF b.raised # ""
         THEN /\ ret' = [ret EXCEPT ![t] = [op |-> "get_time_pdf",
                                            raised |-> b.raised, value |-> None]]
              /\ Goto(t, "idle")
              /\ UNCHANGED loc
         ELSE /\ loc' = [loc EXCEPT ![t] = b.value[1]]
              /\ Goto(t, "tp_store")
              /\ UNCHANGED ret
    /\ nBuilds' = nBuilds + 1
    /\ UNCHANGED <<loaded_background, background_dtype, time_pdf, rng, nLoads,
                   nCalls>>
    /\ UNCHANGED <<concShared, outsideSeason>>

\* get_time_pdf, line 190: the assignment to self.time_pdf
tp_store(t) ==
    /\ pc[t] = "tp_store"
    /\ time_pdf' = Some(loc[t])
    /\ loc' = [loc EXCEPT ![t] = None]
    /\ Goto(t, "tp_return")
    /\ UNCHANGED <<loaded_background, background_dtype, rng, nLoads, nBuilds,
                   nCalls, ret>>
    /\ UNCHANGED <<concShared, outsideSeason>>

\* get_time_pdf, line 191
tp_return(t) ==
    /\ pc[t] = "tp_return"
    /\ ret' = [ret EXCEPT ![t] = [op |-> "get_time_pdf", raised |-> "",
                                  value |-> time_pdf]]
    /\ Goto(t, "idle")
    /\ UNCHANGED <<loaded_background, background_dtype, time_pdf, rng, nLoads,
                   nBuilds, nCalls, loc>>
    /\ UNCHANGED <<concShared, outsideSeason>>

\* a fresh Season with the default livetime dictionary on a file that holds
\* events, and every thread outside its methods
InitConc ==
    /\ DatasetInit
    /\ NoHolder
    /\ NoGrid
    /\ NoFiles
    /\ NoCosmo
    /\ SeasonInit
    /\ exp \in {x \in ExpTables : Len(x) >= 1}
    /\ t_pdf_cfg = None
    /\ rng \in {SeededState(s) : s \in Seeds}
    /\ pc = [t \in Threads |-> "idle"]
    /\ loc = [t \in Threads |-> None]
    /\ ret = [t \in Threads |-> NoRet]

NextConc ==
    \E t \in Threads :
        \/ pb_enter(t)
        \/ pb_load(t)
        \/ pb_store(t)
        \/ pb_copy(t)
        \/ pb_ra(t)
        \/ pb_shuffle(t)
        \/ pb_dtype_test(t)
        \/ pb_dtype_load(t)
        \/ pb_dtype_store(t)
        \/ pb_return(t)
        \/ tp_enter(t)
        \/ tp_build(t)
        \/ tp_store(t)
        \/ tp_return(t)

SpecConc == InitConc /\ [][NextConc]_vars

\* -------------------------------------------------------------- C4
\* C4: however the first accesses of several threads interleave,
\* load_background_model and build_time_pdf each run at most once, and the
\* time PDF a get_time_pdf call returned stays the cached one.
C4_BuiltOnceUnderConcurrency ==
    /\ nLoads <= 1
    /\ nBuilds <= 1
    /\ \A t \in Threads :
          ret[t].op = "get_time_pdf" => ret[t].value = time_pdf

\* --------------------------------------------------- check_files_exist
\* paths are 1..NumPaths
NumPaths == 3
\* longest list of paths given where one path is expected
MaxList == 2

Paths == 1..NumPaths

\* a path argument: one path, or a list of paths
PlainPath(p) == [is_list |-> FALSE, items |-> <<p>>]

PathList(ps) == [is_list |-> TRUE, items |-> ps]

PathArgs ==
    {PlainPath(p) : p \in Paths}
        \cup {PathList(ps) : ps \in UNION {[1..n -> Paths] : n \in 0..MaxList}}

\* Season.__init__
Season__init__(exp_path_arg) ==
    /\ exp_path = Some(exp_path_arg)
    /\ pseudo_mc_path = None
    /\ mc_path = None
    /\ all_paths = <<exp_path_arg>>

\* SeasonWithMC.__init__
SeasonWithMC__init__(exp_path_arg, mc_path_arg) ==
    /\ exp_path = Some(exp_path_arg)
    /\ mc_path = Some(mc_path_arg)
    /\ all_paths = <<exp_path_arg, mc_path_arg>>
    /\ pseudo_mc_path = Some(mc_path_arg)

\* SeasonWithoutMC.__init__
SeasonWithoutMC__init__(exp_path_arg, pseudo_mc_path_arg) ==
    /\ exp_path = Some(exp_path_arg)
    /\ mc_path = None
    /\ pseudo_mc_path = Some(pseudo_mc_path_arg)
    /\ all_paths = <<exp_path_arg, pseudo_mc_path_arg>>

\* a first loop that keeps the plain entries and skips the lists
RECURSIVE FlattenPlainOnly(_, _, _)
FlattenPlainOnly(registered, i, acc) ==
    IF i > Len(registered) THEN acc
    ELSE FlattenPlainOnly(registered, i + 1,
            IF registered[i].is_list THEN acc ELSE Append(acc, registered[i].items[1]))

\* the first loop of check_files_exist over self.all_paths[i..]:
\* all_paths += x for a list, all_paths.append(x) otherwise
RECURSIVE Flatten(_, _, _)
Flatten(registered, i, acc) ==
    IF i > Len(registered) THEN acc
    ELSE Flatten(registered, i + 1,
            IF registered[i].is_list THEN acc \o registered[i].items
            ELSE Append(acc, registered[i].items[1]))

\* os.path.isfile
isfile(files, p) == p \in files

\* the second loop of check_files_exist over all_paths[i..]: the first path
\* that is no file raises, the others are printed as found
RECURSIVE CheckLoop(_, _, _)
CheckLoop(files, flat, i) ==
    IF i > Len(flat) THEN [raised |-> FALSE, path |-> 0, found |-> flat]
    ELSE IF ~isfile(files, flat[i])
         THEN [raised |-> TRUE, path |-> flat[i], found |-> SubSeq(flat, 1, i - 1)]
         ELSE CheckLoop(files, flat, i + 1)

\* Season.check_files_exist
check_files_exist ==
    /\ ret' = [op |-> "check_files_exist",
               res |-> CheckLoop(fs, Flatten(all_paths, 1, <<>>), 1)]
    /\ UNCHANGED fileVars
    /\ UNCHANGED <<datasetVars, seasonVars, threadVars, cosmoVars,
                   holderVars, gridVars>>

InitFiles ==
    /\ DatasetInit
    /\ NoHolder
    /\ NoGrid
    /\ SeasonIdle
    /\ Sequential
    /\ NoCosmo
    /\ fs \in SUBSET Paths
    /\ \/ \E e \in PathArgs : Season__init__(e)
       \/ \E e \in PathArgs, m \in PathArgs : SeasonWithMC__init__(e, m)
       \/ \E e \in PathArgs, m \in PathArgs : SeasonWithoutMC__init__(e, m)
    /\ ret = NoRet

NextFiles == check_files_exist

SpecFiles == InitFiles /\ [][NextFiles]_vars

\* -------------------------------------------------------------- C9
\* the places of the registered paths: entry i of all_paths, item j of it
PathPlaces ==
    {pl \in (1..Len(all_paths)) \X (1..(MaxList + 1)) :
        pl[2] <= Len(all_paths[pl[1]].items)}

PathAt(pl) == all_paths[pl[1]].items[pl[2]]

\* registration order: by entry, then by position in a list entry
PlaceBefore(a, b) == a[1] < b[1] \/ (a[1] = b[1] /\ a[2] < b[2])

\* C9: a check_files_exist call completes if and only if every registered
\* path, list entries taken item by item, is a file; otherwise it raises with
\* the first registered path that is no file; and it leaves the Season's
\* paths as they were.
C9_CheckFilesExist ==
    [][ret'.op = "check_files_exist" =>
        /\ ~ret'.res.raised <=> \A pl \in PathPlaces : PathAt(pl) \in fs
        /\ ret'.res.raised =>
              \E pl \in PathPlaces :
                  /\ PathAt(pl) = ret'.res.path
                  /\ PathAt(pl) \notin fs
                  /\ \A q \in PathPlaces : PlaceBefore(q, pl) => PathAt(q) \in fs
        /\ all_paths' = all_paths
        /\ exp_path' = exp_path
        /\ pseudo_mc_path' = pseudo_mc_path
        /\ mc_path' = mc_path]_vars

\* a check of a season with a list of experimental files and an MC file that
\* raised for the second file of the list, the first being a file
C9_Witness ==
    /\ ret.op = "check_files_exist"
    /\ ret.res.raised
    /\ Len(all_paths) = 2
    /\ all_paths[1].is_list
    /\ Len(all_paths[1].items) = 2
    /\ all_paths[1].items[1] \in fs
    /\ all_paths[1].items[2] = ret.res.path
    /\ all_paths[2].items[1] \notin fs
    /\ all_paths[2].items[1] # ret.res.path

\* -------------------------------------------------- calculate_transient
\* spectral indices are held in hundredths: 2.5 is 250
JointGamma == 250

NorthernTracksGamma == 219

\* source energies (erg) are 1..MaxEnergy
MaxEnergy == 3

DiffuseFits == {"Joint", "Northern Tracks", "Other"}

\* get_diffuse_flux_at_100TeV / get_diffuse_flux_at_1GeV: the best-fit
\* spectral index of the named fit; any other name raises
get_diffuse_gamma(fit) ==
    CASE fit = "Joint" -> [raised |-> "", gamma |-> JointGamma]
      [] fit = "Northern Tracks" -> [raised |-> "", gamma |-> NorthernTracksGamma]
      [] OTHER -> [raised |-> "fit not recognised", gamma |-> 0]

\* a dict with the entries that are asked for
EPdfDict(with_name, gammas, energies) ==
    [k \in (IF with_name THEN {"Name"} ELSE {})
            \cup (IF gammas = <<>> THEN {} ELSE {"Gamma"})
            \cup (IF energies = <<>> THEN {} ELSE {"Source Energy (erg)"}) |->
        CASE k = "Name" -> "Power Law"
          [] k = "Gamma" -> gammas[1]
          [] k = "Source Energy (erg)" -> energies[1]]

\* the dicts a caller may hold: a name, perhaps a spectral index, perhaps an energy
EPdfDicts ==
    {EPdfDict(n, g, e) :
        n \in BOOLEAN,
        g \in {None, Some(200), Some(JointGamma), Some(300)},
        e \in {None} \cup {Some(x) : x \in 1..MaxEnergy}}

\* lines 194-196: the dict after the test for "Gamma"
WithGamma(d, diffuse_gamma) ==
    IF "Gamma" \notin DOMAIN d THEN DictSet(d, "Gamma", diffuse_gamma) ELSE d

\* calculate_transient, on the dict object the caller passed: the fit is
\* looked up, the spectral index defaulted, the source energy and the index
\* read; the flux integral it then returns is a function of these two
calculate_transient(diffuse_fit) ==
    /\ LET fit == get_diffuse_gamma(diffuse_fit) IN
       IF fit.raised # ""
       THEN /\ ret' = [op |-> "calculate_transient", fit |-> diffuse_fit,
                       raised |-> fit.raised]
            /\ UNCHANGED e_pdf_dict
       ELSE LET d == WithGamma(e_pdf_dict, fit.gamma) IN
            /\ e_pdf_dict' = d
            /\ ret' = IF "Source Energy (erg)" \notin DOMAIN d
                      THEN [op |-> "calculate_transient", fit |-> diffuse_fit,
                            raised |-> "KeyError"]
                      ELSE [op |-> "calculate_transient", fit |-> diffuse_fit,
                            raised |-> "",
                            nu_e |-> d["Source Energy (erg)"],
                            gamma |-> d["Gamma"]]
    /\ UNCHANGED <<datasetVars, seasonVars, threadVars, fileVars,
                   holderVars, gridVars>>

InitCosmo ==
    /\ DatasetInit
    /\ NoHolder
    /\ NoGrid
    /\ SeasonIdle
    /\ Sequential
    /\ NoFiles
    /\ e_pdf_dict \in EPdfDicts
    /\ ret = NoRet

NextCosmo == \E fit \in DiffuseFits : calculate_transient(fit)

SpecCosmo == InitCosmo /\ [][NextCosmo]_vars

\* -------------------------------------------------------------- C10
\* C10: a calculate_transient call leaves the caller's e_pdf_dict with the
\* keys and values it had, with or without a "Gamma" entry on entry.
C10_DictUnchanged ==
    [][ret'.op = "calculate_transient" => e_pdf_dict' = e_pdf_dict]_vars

\* ------------------------------------------------------- DatasetHolder
\* version keys are 1..NumVersions
NumVersions == 3
\* the datasets that may be stored are 1..NumDatasets
NumDatasets == 2

Versions == 1..NumVersions

DatasetObjs == 1..NumDatasets

\* DatasetHolder.__init__
DatasetHolder__init__ ==
    /\ datasets = EmptyDict
    /\ current = None

\* a caller's holder.datasets[version] = dataset
store_dataset(version, dataset) ==
    /\ datasets' = DictSet(datasets, version, dataset)
    /\ ret' = [op |-> "store_dataset"]
    /\ UNCHANGED current
    /\ UNCHANGED <<datasetVars, seasonVars, threadVars, fileVars, cosmoVars, gridVars>>

\* DatasetHolder.set_current
set_current(version) ==
    /\ IF version \in DOMAIN datasets
       THEN /\ current' = Some(version)
            /\ ret' = [op |-> "set_current", raised |-> ""]
       ELSE /\ ret' = [op |-> "set_current", raised |-> "Exception"]
            /\ UNCHANGED current
    /\ UNCHANGED datasets
    /\ UNCHANGED <<datasetVars, seasonVars, threadVars, fileVars, cosmoVars, gridVars>>

\* sorted(list(d.keys())): the list of the keys of d in increasing order
RECURSIVE SortedKeys(_)
SortedKeys(keys) ==
    IF keys = {} THEN <<>>
    ELSE LET k == CHOOSE x \in keys : \A y \in keys : x <= y IN
         <<k>> \o SortedKeys(keys \ {k})

\* d[key] for a key that is a version: KeyError when it is not stored
GetItem(d, key) ==
    IF key \in DOMAIN d THEN [raised |-> "", value |-> Some(d[key])]
    ELSE [raised |-> "KeyError", value |-> None]

\* d[key] for a key that is a list: a list is unhashable, so the subscript
\* raises TypeError whatever d holds
GetItemByList(d, key) == [raised |-> "TypeError", value |-> None]

\* DatasetHolder.get_current
get_current ==
    /\ IF current # None
       THEN ret' = [op |-> "get_current", fallback |-> FALSE,
                    res |-> GetItem(datasets, current[1])]
       ELSE LET key == SortedKeys(DOMAIN datasets) IN
            ret' = [op |-> "get_current", fallback |-> TRUE,
                    res |-> GetItemByList(datasets, key)]
    /\ UNCHANGED <<datasets, current>>
    /\ UNCHANGED <<datasetVars, seasonVars, threadVars, fileVars, cosmoVars, gridVars>>

InitHolder ==
    /\ DatasetInit
    /\ DatasetHolder__init__
    /\ NoGrid
    /\ Sequential
    /\ NoFiles
    /\ NoCosmo
    /\ SeasonIdle
    /\ ret = NoRet

NextHolder ==
    \/ \E v \in Versions, d \in DatasetObjs : store_dataset(v, d)
    \/ \E v \in Versions : set_current(v)
    \/ get_current

SpecHolder == InitHolder /\ [][NextHolder]_vars

\* -------------------------------------------------------------- C11
\* C11: get_current returns the dataset stored under the current version
\* when one has been set; when none has been set and at least one dataset is
\* stored, it returns one of the stored datasets instead of failing.
C11_GetCurrentFallsBack ==
    ret.op = "get_current" =>
        /\ current # None =>
               /\ ret.res.raised = ""
               /\ ret.res.value = Some(datasets[current[1]])
        /\ (current = None /\ DOMAIN datasets # {}) =>
               /\ ret.res.raised = ""
               /\ \E v \in DOMAIN datasets : ret.res.value = Some(datasets[v])

\* ------------------------------------------------- redshift integrals
\* the grid of integrate_over_z has NSteps intervals (nsteps = 1e3 in the
\* code), the grid cumulative_z makes for a scalar argument has NSteps + 1
NSteps == 3
\* the integrand takes the values 0..MaxF on the grid points
MaxF == 2

\* the values f(zrange[0]), f(zrange[1]), ... of an integrand on a grid of
\* n intervals: entry k + 1 of the sequence is f(zrange[k])
GridValues(n) == [1..(n + 1) -> 0..MaxF]

\* the loop of integrate_over_z and cumulative_z over enumerate(zrange[1:-1]),
\* from its pass i on: z is zrange[i + 1], its partner zrange[i + 2].  Sums
\* are in units of 0.5 * step.
RECURSIVE TrapezoidLoop(_, _, _, _)
TrapezoidLoop(fz, i, int_sum, ints) ==
    IF i >= Len(fz) - 2 THEN [int_sum |-> int_sum, ints |-> ints]
    ELSE LET s == int_sum + (fz[i + 2] + fz[i + 3]) IN
         TrapezoidLoop(fz, i + 1, s, Append(ints, s))

\* integrate_over_z(f, zmin, zmax), f given by its values on
\* np.linspace(zmin, zmax, nsteps + 1)
integrate_over_z ==
    /\ Len(fgrid) = NSteps + 1
    /\ ret' = [op |-> "integrate_over_z",
               value |-> TrapezoidLoop(fgrid, 0, 0, <<>>).int_sum]
    /\ UNCHANGED fgrid
    /\ UNCHANGED <<datasetVars, seasonVars, threadVars, fileVars, cosmoVars, holderVars>>

\* cumulative_z(f, zrange): zrange is an array (any grid of at least two
\* points) or a scalar, for which np.linspace(0.0, zrange, nsteps + 1) with
\* nsteps = 1e3 + 1 makes the grid
cumulative_z(is_array) ==
    /\ IF is_array THEN Len(fgrid) >= 2 ELSE Len(fgrid) = NSteps + 2
    /\ ret' = [op |-> "cumulative_z", is_array |-> is_array,
               value |-> TrapezoidLoop(fgrid, 0, 0, <<>>).ints]
    /\ UNCHANGED fgrid
    /\ UNCHANGED <<datasetVars, seasonVars, threadVars, fileVars, cosmoVars, holderVars>>

InitIntegrate ==
    /\ DatasetInit
    /\ NoHolder
    /\ SeasonIdle
    /\ Sequential
    /\ NoFiles
    /\ NoCosmo
    /\ \E n \in 1..(NSteps + 1) : fgrid \in GridValues(n)
    /\ ret = NoRet

NextIntegrate ==
    \/ integrate_over_z
    \/ \E a \in BOOLEAN : cumulative_z(a)

SpecIntegrate == InitIntegrate /\ [][NextIntegrate]_vars

\* -------------------------------------------------------------- C12
\* the trapezoid-rule sum of f over every interval of the grid, from
\* interval k on, in units of 0.5 * step
RECURSIVE TrapezoidFrom(_, _)
TrapezoidFrom(fz, k) ==
    IF k >= Len(fz) THEN 0
    ELSE (fz[k] + fz[k + 1]) + TrapezoidFrom(fz, k + 1)

\* C12: integrate_over_z returns the trapezoid-rule sum of f over every
\* interval of its grid, and the last entry of cumulative_z is the
\* trapezoid-rule sum over every interval of its grid: no interval, the
\* first one included, is left out or counted twice.
C12_WholeRangeIntegrated ==
    /\ ret.op = "integrate_over_z" => ret.value = TrapezoidFrom(fgrid, 1)
    /\ (ret.op = "cumulative_z" /\ ret.value # <<>>) =>
           ret.value[Len(ret.value)] = TrapezoidFrom(fgrid, 1)

\* -------------------------------------------------------------- C13
\* C13 as claimed: after a sequence of get_time_pdf and clean_season_cache
\* calls (no direct call of build_time_pdf), build_time_pdf has run exactly
\* once per maximal run of get_time_pdf calls not separated by
\* clean_season_cache, and a build that raises leaves the cache empty.
C13_BuiltOncePerRun ==
    /\ direct.builds = 0 => nBuilds = tp_hist.runs
    /\ (ret.op = "get_time_pdf" /\ ret.raised # "") => time_pdf = None

\* the season's time PDF can be built: its class is an allowed one and its
\* dictionary can be made
C13_Buildable ==
    /\ ConfiguredClass \in {"FixedEndBox", "FixedRefBox", "OnOffList"}
    /\ ~ (t_pdf_cfg = None /\ Len(exp) = 0)

\* C13 amended: when the season's time PDF can be built, get_time_pdf has
\* run build_time_pdf exactly once per maximal run of get_time_pdf calls not
\* separated by clean_season_cache (the direct calls of build_time_pdf come
\* on top and cache nothing), and every call of a run returns the object
\* built by the first call of that run; when build_time_pdf raises, the cache
\* stays empty, so every get_time_pdf call runs build_time_pdf again and
\* raises, and no time PDF of a disallowed class is ever cached or returned.
C13_MemoizedWhenBuildable ==
    /\ C13_Buildable =>
           /\ nBuilds = tp_hist.runs + direct.builds
           /\ tp_hist.open <=> time_pdf # None
           /\ time_pdf # None => time_pdf[1].id <= nBuilds
           /\ (time_pdf # None /\ direct.builds = 0) => time_pdf[1].id = tp_hist.runs
           /\ ret.op = "get_time_pdf" =>
                  /\ ret.raised = ""
                  /\ ret.value = time_pdf
                  /\ time_pdf # None
    /\ ~ C13_Buildable =>
           /\ nBuilds = tp_hist.calls + direct.builds
           /\ time_pdf = None
           /\ ret.op = "get_time_pdf" =>
                  /\ ret.built
                  /\ ret.raised # ""
                  /\ ret.value = None
    /\ time_pdf # None =>
           time_pdf[1].class \in {"FixedEndBox", "FixedRefBox", "OnOffList"}

\* the second call of the second run returned the cached time PDF
C13_Witness ==
    /\ C13_Buildable
    /\ direct.builds = 0
    /\ tp_hist.runs = 2
    /\ tp_hist.calls = 3
    /\ nBuilds = 2
    /\ ret.op = "get_time_pdf"
    /\ ~ ret.built
    /\ ret.value = time_pdf
    /\ time_pdf[1].id = 2

\* -------------------------------------------------------------- C14
\* C14: a get_seasons() call with no names returns a fresh mapping holding
\* exactly the registered main seasons, no subseason; when the caller adds or
\* removes entries in the mapping it holds, what the Dataset reports through
\* get_seasons, keys, items and __getitem__ stays as it was.
C14_FreshMapping ==
    [][/\ (ret'.op = "get_seasons" /\ Len(ret'.args) = 0) =>
              /\ ~ret'.res.raised
              /\ ~ret'.res.shared
              /\ DOMAIN ret'.res.value = DOMAIN seasons
              /\ \A n \in DOMAIN seasons : ret'.res.value[n] = seasons[n]
              /\ seasons' = seasons /\ subseasons' = subseasons
       /\ ret'.op = "caller_write" =>
              /\ \A a \in ArgLists :
                     GetSeasonsResult(seasons', subseasons', a)
                         = GetSeasonsResult(seasons, subseasons, a)
              /\ Dataset_keys(seasons') = Dataset_keys(seasons)
              /\ Dataset_items(seasons') = Dataset_items(seasons)
              /\ \A n \in SeasonNames :
                     Dataset__getitem__(seasons', n) = Dataset__getitem__(seasons, n)
      ]_vars

\* the caller has removed a main season from the mapping it holds and added a
\* name that is registered as a subseason only
C14_Witness ==
    /\ ret.op = "caller_write"
    /\ \E n \in DOMAIN seasons : n \notin DOMAIN ret.res.value
    /\ \E n \in DOMAIN ret.res.value :
          /\ n \notin DOMAIN seasons
          /\ n \in DOMAIN subseasons

====
